---- MODULE Spec2Model ----
(***************************************************************************)
(* Model of the utility dashboard script src/app.py: the cached loader     *)
(* load_data, the sidebar filter, the top metrics and the six tabs, run    *)
(* top to bottom once per render.                                          *)
(***************************************************************************)
EXTENDS Integers, Sequences, FiniteSets

\* ---------------------------------------------------------------- bounds
\* Longest span, in months, of the generated run of monthly rows.
MaxSpan == 13
\* Largest distance, in months, between two consecutive rows of the run.
MaxStride == 3
\* How many times the source file is rewritten after the start.
MaxChanges == 1

\* ---------------------------------------------------------------- floats
\* A float64 cell: a rational n/d in lowest terms, or NaN, +inf, -inf.
F(i) == [k |-> "num", n |-> i, d |-> 1]
NaN == [k |-> "nan", n |-> 0, d |-> 1]
Inf == [k |-> "inf", n |-> 0, d |-> 1]
NInf == [k |-> "ninf", n |-> 0, d |-> 1]

Abs(i) == IF i < 0 THEN -i ELSE i

RECURSIVE Gcd(_, _)
Gcd(a, b) == IF b = 0 THEN a ELSE Gcd(b, a % b)

\* The rational n/d (d > 0) in lowest terms.
Ratio(n, d) ==
    LET g == Gcd(Abs(n), d)
    IN  [k |-> "num", n |-> n \div g, d |-> d \div g]

\* float64 addition.
FAdd(a, b) ==
    IF a.k = "nan" \/ b.k = "nan" THEN NaN
    ELSE IF a.k = "inf" THEN (IF b.k = "ninf" THEN NaN ELSE Inf)
    ELSE IF a.k = "ninf" THEN (IF b.k = "inf" THEN NaN ELSE NInf)
    ELSE IF b.k = "inf" THEN Inf
    ELSE IF b.k = "ninf" THEN NInf
    ELSE Ratio(a.n * b.d + b.n * a.d, a.d * b.d)

\* float64 division of two finite-or-NaN cells, as numpy divides columns:
\* x/0 is +inf or -inf, 0/0 is NaN, and nothing is raised.
FDiv(a, b) ==
    IF a.k = "nan" \/ b.k = "nan" THEN NaN
    ELSE IF b.n = 0
         THEN (IF a.n = 0 THEN NaN ELSE IF a.n > 0 THEN Inf ELSE NInf)
    ELSE IF b.n > 0 THEN Ratio(a.n * b.d, a.d * b.n)
    ELSE Ratio(-(a.n * b.d), a.d * (-b.n))

\* A float cell divided by a positive count.
FDivCount(a, c) == IF a.k = "num" THEN Ratio(a.n, a.d * c) ELSE a

\* ---------------------------------------------------------------- sequences
RECURSIVE SeqSumNat(_)
SeqSumNat(s) == IF s = <<>> THEN 0 ELSE Head(s) + SeqSumNat(Tail(s))

\* The sequence f with its elements evaluated once (the value is unchanged).
Tup(f) == f \o <<>>

Reverse(s) == Tup([i \in 1..Len(s) |-> s[Len(s) + 1 - i]])

\* The members of the integer set S in ascending order.
RECURSIVE SortedInts(_)
SortedInts(S) ==
    IF S = {} THEN <<>>
    ELSE LET m == CHOOSE x \in S : \A y \in S : x <= y
         IN  <<m>> \o SortedInts(S \ {m})

Range(s) == {s[i] : i \in 1..Len(s)}

\* ---------------------------------------------------------------- the sheet
\* Sort order of the labels (Python's sorted() on the strings).
PropUniverse == <<"P1", "P2">>
UtilityUniverse == <<"Electric", "Water">>

\* One row of Sheet1. Usage is an integer column; "$ Amt" and "# units" are
\* float columns, so a blank "# units" cell is NaN.
Row(p, c, st, u, y, m, d, usage, amt, units) ==
    [Prop_Name |-> p, City |-> c, State |-> st, Utility |-> u,
     Date |-> [y |-> y, m |-> m, d |-> d],
     Usage |-> usage, Amt |-> amt, units |-> units]

\* Months since January of year 0, and back.
MonthIndex(date) == date.y * 12 + (date.m - 1)
DateOfIndex(i) == [y |-> i \div 12, m |-> (i % 12) + 1, d |-> 1]

StartIndex == 2023 * 12

\* n monthly bills of P1/Electric from January 2023 on, `stride` months apart.
RunRows(n, stride) ==
    Tup([i \in 1..n |->
        LET dt == DateOfIndex(StartIndex + (i - 1) * stride)
        IN  Row("P1", "Boise", "ID", "Electric", dt.y, dt.m, 1, i, F(50), F(10))])

\* Single rows that exercise the special cases of the arithmetic and grouping.
ExtraRows ==
    { Row("P1", "Boise", "ID", "Electric", 2023, 1, 1, 0, F(50), F(0)),
      Row("P1", "Boise", "ID", "Electric", 2023, 1, 15, 0, F(50), F(10)),
      Row("P1", "Boise", "ID", "Electric", 2023, 3, 1, 4, F(0), F(0)),
      Row("P1", "Boise", "ID", "Water", 2023, 2, 1, 7, F(20), NaN),
      Row("P2", "Waco", "TX", "Water", 2024, 2, 1, 3, F(50), F(4)) }

\* The row a later rewrite of the file appends.
ChangeRows ==
    { Row("P2", "Reno", "NV", "Water", 2023, 2, 1, 3, F(30), F(4)) }

\* A run, the extra rows after it, in file order or reversed.
SheetOf(n, stride, extra, rev) ==
    LET t == RunRows(n, stride) \o extra
    IN  IF rev THEN Reverse(t) ELSE t

\* The sheets the model starts from: every run that fits the span, with at
\* most one extra row; a sheet has at least one row.
SourceTables ==
    { SheetOf(c[1], c[2], c[3], c[4]) :
        c \in { q \in (0..MaxSpan) \X (1..MaxStride)
                      \X ({<<>>} \cup { <<e>> : e \in ExtraRows }) \X BOOLEAN :
                  /\ q[1] + Len(q[3]) >= 1
                  /\ (q[1] - 1) * q[2] < MaxSpan } }

\* ---------------------------------------------------------------- load_data
\* Series.dt.month_name() in the default (English) locale.
MonthNames ==
    << <<"J", "a", "n", "u", "a", "r", "y">>,
       <<"F", "e", "b", "r", "u", "a", "r", "y">>,
       <<"M", "a", "r", "c", "h">>,
       <<"A", "p", "r", "i", "l">>,
       <<"M", "a", "y">>,
       <<"J", "u", "n", "e">>,
       <<"J", "u", "l", "y">>,
       <<"A", "u", "g", "u", "s", "t">>,
       <<"S", "e", "p", "t", "e", "m", "b", "e", "r">>,
       <<"O", "c", "t", "o", "b", "e", "r">>,
       <<"N", "o", "v", "e", "m", "b", "e", "r">>,
       <<"D", "e", "c", "e", "m", "b", "e", "r">> >>

\* .str[:3]
StrSlice3(s) == SubSeq(s, 1, IF Len(s) < 3 THEN Len(s) ELSE 3)

\* The labels in alphabetical order.
month_order_sorted ==
    << <<"A", "p", "r">>,
       <<"A", "u", "g">>,
       <<"D", "e", "c">>,
       <<"F", "e", "b">>,
       <<"J", "a", "n">>,
       <<"J", "u", "l">>,
       <<"J", "u", "n">>,
       <<"M", "a", "r">>,
       <<"M", "a", "y">>,
       <<"N", "o", "v">>,
       <<"O", "c", "t">>,
       <<"S", "e", "p">> >>

\* Line 19.
month_order ==
    << <<"J", "a", "n">>,
       <<"F", "e", "b">>,
       <<"M", "a", "r">>,
       <<"A", "p", "r">>,
       <<"M", "a", "y">>,
       <<"J", "u", "n">>,
       <<"J", "u", "l">>,
       <<"A", "u", "g">>,
       <<"S", "e", "p">>,
       <<"O", "c", "t">>,
       <<"N", "o", "v">>,
       <<"D", "e", "c">> >>

\* The code pd.Categorical gives a label: its position in the categories, or
\* 0 (pandas' -1, shown as NaN) for a label that is no category.
CategoryCodeIn(cats, label) ==
    IF \E i \in 1..Len(cats) : cats[i] = label
    THEN CHOOSE i \in 1..Len(cats) : cats[i] = label
    ELSE 0

CategoryCode(label) == CategoryCodeIn(month_order, label)

\* One row after lines 15-22: Year, the ordered categorical Month (kept as
\* its label and its code) and Cost_per_Unit = "$ Amt" / "# units".
NormalizeRow(r) ==
    LET label == StrSlice3(MonthNames[r.Date.m])
    IN  [Prop_Name |-> r.Prop_Name, City |-> r.City, State |-> r.State,
         Utility |-> r.Utility, Date |-> r.Date, Usage |-> r.Usage,
         Amt |-> r.Amt, units |-> r.units,
         Year |-> r.Date.y,
         Month |-> [label |-> label, code |-> CategoryCode(label)],
         Cost_per_Unit |-> FDiv(r.Amt, r.units)]

\* The body of load_data: the sheet, row by row.
ReadAndNormalize(sheet) ==
    Tup([i \in 1..Len(sheet) |-> NormalizeRow(sheet[i])])

\* The cached table: no entry before the first call.
NoCache == [filled |-> FALSE, df |-> <<>>]

\* @st.cache_data on a function without arguments: the body runs on a miss and
\* its result is stored; a hit returns the stored table. Nothing looks at the
\* file on a hit. Returns the table the script gets and the cache afterwards.
load_data(cacheEntry, sheet) ==
    IF cacheEntry.filled
    THEN [df |-> cacheEntry.df, cache |-> cacheEntry]
    ELSE LET t == ReadAndNormalize(sheet)
         IN  [df |-> t, cache |-> [filled |-> TRUE, df |-> t]]

\* ---------------------------------------------------------------- columns
Col(df, name) == Tup([i \in 1..Len(df) |-> df[i][name]])

\* Series.sum() of an integer column: 0 for an empty one.
IntSum(col) == SeqSumNat(col)

\* Series.sum() of a float column (skipna): NaN cells are skipped, the sum of
\* nothing is 0.
RECURSIVE FSum(_)
FSum(col) ==
    IF col = <<>> THEN F(0)
    ELSE IF Head(col).k = "nan" THEN FSum(Tail(col))
    ELSE FAdd(Head(col), FSum(Tail(col)))

\* How many cells of a float column are not NaN.
RECURSIVE FCount(_)
FCount(col) ==
    IF col = <<>> THEN 0
    ELSE (IF Head(col).k = "nan" THEN 0 ELSE 1) + FCount(Tail(col))

\* A mean that reports 0 for a column without values.
MeanOrZero(col) ==
    IF FCount(col) = 0 THEN F(0) ELSE FDivCount(FSum(col), FCount(col))

\* Series.mean() of a float column (skipna): the sum of the cells that are
\* not NaN over their count, NaN when there is none.
FMean(col) ==
    IF FCount(col) = 0 THEN NaN ELSE FDivCount(FSum(col), FCount(col))

\* ---------------------------------------------------------------- sidebar
\* sorted(df[col].unique()) for the label columns and for Year.
OptionsIn(universe, df, name) ==
    SelectSeq(universe, LAMBDA v : \E i \in 1..Len(df) : df[i][name] = v)

prop_options(df) == OptionsIn(PropUniverse, df, "Prop_Name")
utility_options(df) == OptionsIn(UtilityUniverse, df, "Utility")
year_options(df) == SortedInts({df[i].Year : i \in 1..Len(df)})

\* ---------------------------------------------------------------- filter
\* df[col] == value: one boolean per row.
EqMask(df, name, v) == Tup([i \in 1..Len(df) |-> df[i][name] = v])

\* mask | mask
MaskOr(a, b) == Tup([i \in 1..Len(a) |-> a[i] \/ b[i]])

\* mask & mask
MaskAnd(a, b) == Tup([i \in 1..Len(a) |-> a[i] /\ b[i]])

\* df[mask]: the rows whose mask is true, in table order, as a new table.
BoolIndex(df, mask) ==
    LET idx == SelectSeq(Tup([i \in 1..Len(df) |-> i]), LAMBDA i : mask[i])
    IN  Tup([j \in 1..Len(idx) |-> df[idx[j]]])

\* Lines 41-45.
filtered(df, p, u, y) ==
    BoolIndex(df, MaskAnd(MaskAnd(EqMask(df, "Prop_Name", p),
                                  EqMask(df, "Utility", u)),
                          EqMask(df, "Year", y)))

\* ---------------------------------------------------------------- top metrics
\* The four values handed to the metric tiles (lines 55-58), before they are
\* formatted.
top_metrics(view) ==
    [Total_Usage |-> IntSum(Col(view, "Usage")),
     Total_Cost |-> FSum(Col(view, "Amt")),
     Avg_Monthly_Cost |-> FMean(Col(view, "Amt")),
     Avg_Cost_per_Unit |-> FMean(Col(view, "Cost_per_Unit"))]

\* ---------------------------------------------------------------- year over year
\* Lines 134-137, and again lines 209-212.
yoy_filtered(df, p, u) ==
    BoolIndex(df, MaskAnd(EqMask(df, "Prop_Name", p), EqMask(df, "Utility", u)))

\* The rows of t of one Month code and one Year.
CellRows(t, code, year) ==
    SelectSeq(t, LAMBDA r : r.Month.code = code /\ r.Year = year)

\* Month codes that have a row in t, ascending.
ObservedCodes(t) == SortedInts({t[i].Month.code : i \in 1..Len(t)} \ {0})

\* The index of the pivot. The groupby behind pivot_table takes `observed`
\* from the pandas default, which the script does not set: with False every
\* category is a group as soon as the table has a row, with True only the
\* months that occur.
PivotIndex(t, observed) ==
    IF observed THEN ObservedCodes(t)
    ELSE IF t = <<>> THEN <<>>
    ELSE Tup([i \in 1..Len(month_order) |-> i])

\* One cell: aggfunc="sum" over the rows of the group. A group without rows
\* exists only when observed is False, and its sum is 0; with observed True
\* the cell is left empty by the unstack and is NaN.
PivotCell(t, code, year, observed) ==
    LET rows == CellRows(t, code, year)
    IN  IF rows = <<>> /\ observed THEN NaN
        ELSE F(IntSum(Col(rows, "Usage")))

\* pivot_table(index="Month", columns="Year", values="Usage",
\* aggfunc="sum").reset_index(): one Month column, then one column per year.
pivot_table(t, observed) ==
    LET years == SortedInts({t[i].Year : i \in 1..Len(t)})
        index == PivotIndex(t, observed)
    IN  [columns |-> years,
         rows |-> Tup([i \in 1..Len(index) |->
                     [Month |-> [label |-> month_order[index[i]],
                                 code |-> index[i]],
                      cells |-> Tup([j \in 1..Len(years) |->
                                   PivotCell(t, index[i], years[j], observed)])]])]

\* Line 149: the chart needs Month and at least two year columns.
yoy_message(pivot) ==
    IF 1 + Len(pivot.columns) > 2 THEN "chart" ELSE "info"

\* ---------------------------------------------------------------- summary
\* Every (a, b) of two sorted label lists, in groupby order.
KeyPairs(as, bs) ==
    Tup([i \in 1..(Len(as) * Len(bs)) |->
        <<as[((i - 1) \div Len(bs)) + 1], bs[((i - 1) % Len(bs)) + 1]>>])

\* Lines 178-183: one row per (Prop Name, Utility) that occurs, keys sorted.
summary(df) ==
    LET keys == SelectSeq(KeyPairs(PropUniverse, UtilityUniverse),
                          LAMBDA k : yoy_filtered(df, k[1], k[2]) # <<>>)
    IN  Tup([i \in 1..Len(keys) |->
            LET g == yoy_filtered(df, keys[i][1], keys[i][2])
            IN  [Prop_Name |-> keys[i][1], Utility |-> keys[i][2],
                 Total_Usage |-> IntSum(Col(g, "Usage")),
                 Total_Cost |-> FSum(Col(g, "Amt")),
                 Avg_Monthly_Cost |-> FMean(Col(g, "Amt")),
                 Avg_Cost_per_Unit |-> FMean(Col(g, "Cost_per_Unit"))]])

\* Lines 188-191: the summary rolled up by property.
prop_totals(sm) ==
    LET ps == OptionsIn(PropUniverse, sm, "Prop_Name")
    IN  Tup([i \in 1..Len(ps) |->
            LET g == SelectSeq(sm, LAMBDA r : r.Prop_Name = ps[i])
            IN  [Prop_Name |-> ps[i],
                 Total_Usage |-> IntSum(Col(g, "Total_Usage")),
                 Total_Cost |-> FSum(Col(g, "Total_Cost"))]])

\* ---------------------------------------------------------------- forecast
\* The series without the groupby: one pair per row, dated to its month.
monthly_ungrouped(series) ==
    Tup([i \in 1..Len(series) |->
        [Date |-> [y |-> series[i].Date.y, m |-> series[i].Date.m, d |-> 1],
         Usage |-> series[i].Usage]])

\* Lines 214-216: groupby(pd.Grouper(key="Date", freq="MS")).agg(Usage=sum).
\* The grouper bins by calendar month from the month of the earliest row to
\* the month of the latest one, every month between them included; a bin
\* without rows sums to 0. An empty table gives no bin.
monthly(series) ==
    IF series = <<>> THEN <<>>
    ELSE LET idx == {MonthIndex(series[i].Date) : i \in 1..Len(series)}
             lo == CHOOSE x \in idx : \A y \in idx : x <= y
             hi == CHOOSE x \in idx : \A y \in idx : x >= y
         IN  Tup([i \in 1..(hi - lo + 1) |->
                [Date |-> DateOfIndex(lo + i - 1),
                 Usage |-> IntSum(Col(SelectSeq(series,
                              LAMBDA r : MonthIndex(r.Date) = lo + i - 1),
                              "Usage"))]])

\* Line 218.
MinHistory == 6

\* Line 219: st.slider("Forecast months ahead", 3, 24, 12).
slider_min == 3
slider_max == 24
slider_default == 12

\* ---------------------------------------------------------------- map and mix
\* Lines 258-275, degrees times 10000.
coords ==
    { [City |-> "Twin Falls", State |-> "ID", lat |-> 425629, lon |-> -1144609],
      [City |-> "Boise", State |-> "ID", lat |-> 436150, lon |-> -1162023],
      [City |-> "Bloomington", State |-> "IL", lat |-> 404842, lon |-> -889937],
      [City |-> "Southaven", State |-> "MS", lat |-> 349889, lon |-> -900126],
      [City |-> "Auburn", State |-> "AL", lat |-> 326099, lon |-> -854808],
      [City |-> "Waco", State |-> "TX", lat |-> 315493, lon |-> -971467],
      [City |-> "Beaverton", State |-> "OR", lat |-> 454871, lon |-> -1228037],
      [City |-> "Germantown", State |-> "TN", lat |-> 350868, lon |-> -898101],
      [City |-> "Olive Branch", State |-> "MS", lat |-> 349618, lon |-> -898295],
      [City |-> "West Jordan", State |-> "UT", lat |-> 406097, lon |-> -1119391],
      [City |-> "Gainesville", State |-> "FL", lat |-> 296516, lon |-> -823248],
      [City |-> "Columbia", State |-> "MD", lat |-> 392037, lon |-> -768610],
      [City |-> "Destin", State |-> "FL", lat |-> 303935, lon |-> -864958],
      [City |-> "Athens", State |-> "GA", lat |-> 339519, lon |-> -833576],
      [City |-> "Manhattan", State |-> "KS", lat |-> 391836, lon |-> -965717],
      [City |-> "Carmel", State |-> "IN", lat |-> 399784, lon |-> -861180] }

\* Lines 277-288: one group per (Prop Name, City, State, # units) with its
\* summed cost; a NaN key drops the row from the grouping; a group whose city
\* is not in coords is dropped from the map. The groups are kept as a set.
map_df(df) ==
    LET keys == { [Prop_Name |-> df[i].Prop_Name, City |-> df[i].City,
                   State |-> df[i].State, units |-> df[i].units] :
                  i \in {j \in 1..Len(df) : df[j].units.k # "nan"} }
        Place(k) == { c \in coords : c.City = k.City /\ c.State = k.State }
    IN  { LET c == CHOOSE c \in Place(k) : TRUE
          IN  [Prop_Name |-> k.Prop_Name, City |-> k.City, State |-> k.State,
               units |-> k.units, lat |-> c.lat, lon |-> c.lon,
               Total_Cost |-> FSum(Col(SelectSeq(df, LAMBDA r :
                                  /\ r.Prop_Name = k.Prop_Name /\ r.City = k.City
                                  /\ r.State = k.State /\ r.units = k.units),
                                  "Amt"))] :
          k \in { q \in keys : Place(q) # {} } }

\* Lines 294-296: the cost of the selected property by utility.
mix(df, p) ==
    LET t == BoolIndex(df, EqMask(df, "Prop_Name", p))
        us == utility_options(t)
    IN  Tup([i \in 1..Len(us) |->
            [Utility |-> us[i],
             Total_Cost |-> FSum(Col(SelectSeq(t, LAMBDA r : r.Utility = us[i]),
                                     "Amt"))]])

\* ---------------------------------------------------------------- the script
AllStages ==
    <<"sidebar", "filtered", "top_metrics", "tab_usage", "tab_cost", "tab_yoy",
      "tab_summary", "tab_forecast", "tab_map_mix">>

\* What the forecast tab does (lines 218-250): below six monthly points it
\* shows the note and calls nothing; from six on it calls Prophet, whose fit
\* or predict either returns or raises. No handler surrounds the calls.
forecast_step(m, outcome) ==
    IF Len(m) >= MinHistory
    THEN (IF outcome = "raises" THEN "raised" ELSE "fit")
    ELSE "info"

\* The script from line 26 up to the monthly series of the forecast tab
\* (line 216), on the table df with the sidebar at (p, u, y).
PageBeforeForecast(df, p, u, y, observed) ==
    LET view == filtered(df, p, u, y)
        yoy == yoy_filtered(df, p, u)
        pv == pivot_table(yoy, observed)
        sm == summary(df)
    IN  [sel |-> [prop |-> p, utility |-> u, year |-> y],
         view |-> view,
         metrics |-> top_metrics(view),
         pivot |-> pv,
         yoy_note |-> yoy_message(pv),
         summary |-> sm,
         prop_totals |-> prop_totals(sm),
         monthly |-> monthly(yoy)]

\* The Map & Mix tab (lines 255-310).
MapAndMix(df, p) == [map_df |-> map_df(df), mix |-> mix(df, p)]

\* The whole page of one run: the part before the forecast, the forecast tab
\* with the slider, when the run shows it, at `slider` (forecast_periods is
\* that value, 0 stands for a run without the slider), and the Map & Mix tab.
\* An exception that leaves the forecast tab ends the run there: the
\* statements after it are not reached.
PageOf(head, tail, slider, outcome) ==
    LET fc == forecast_step(head.monthly, outcome)
        reached == fc # "raised"
    IN  [status |-> IF reached THEN "done" ELSE "exception",
         stages |-> IF reached THEN AllStages
                    ELSE SubSeq(AllStages, 1, Len(AllStages) - 1),
         sel |-> head.sel,
         view |-> head.view,
         metrics |-> head.metrics,
         pivot |-> head.pivot,
         yoy_note |-> head.yoy_note,
         summary |-> head.summary,
         prop_totals |-> head.prop_totals,
         monthly |-> head.monthly,
         forecast |-> fc,
         forecast_periods |-> IF fc = "info" THEN 0 ELSE slider,
         map_df |-> IF reached THEN tail.map_df ELSE {},
         mix |-> IF reached THEN tail.mix ELSE <<>>]

\* One run of the script from line 26 to the end.
Script(df, p, u, y, slider, outcome, observed) ==
    PageOf(PageBeforeForecast(df, p, u, y, observed), MapAndMix(df, p),
           slider, outcome)

\* Before the first run nothing is on the page.
NoOutput ==
    [status |-> "none", stages |-> <<>>,
     sel |-> [prop |-> "", utility |-> "", year |-> 0],
     view |-> <<>>,
     metrics |-> [Total_Usage |-> 0, Total_Cost |-> F(0),
                  Avg_Monthly_Cost |-> NaN, Avg_Cost_per_Unit |-> NaN],
     pivot |-> [columns |-> <<>>, rows |-> <<>>],
     yoy_note |-> "", summary |-> <<>>, prop_totals |-> <<>>,
     monthly |-> <<>>, forecast |-> "", forecast_periods |-> 0,
     map_df |-> {}, mix |-> <<>>]

\* ---------------------------------------------------------------- state
VARIABLES
    file,             \* the rows of Sheet1 of the workbook on disk
    cache,            \* the entry st.cache_data holds for load_data
    out,              \* what the last run of the script put on the page
    pandas_observed,  \* the default of `observed` in the installed pandas
    changes,          \* how often the file was rewritten
    first             \* the first run: the table it loaded and its page,
                      \* and whether a run with another selection followed

vars == <<file, cache, out, pandas_observed, changes, first>>

Init ==
    /\ file \in SourceTables
    /\ cache = NoCache
    /\ out = NoOutput
    /\ pandas_observed \in BOOLEAN
    /\ changes = 0
    /\ first = [filled |-> FALSE, df |-> <<>>, out |-> NoOutput,
                moved |-> FALSE]

\* A cache that hands out the stored object itself, filtered in place.
CacheAfterRunShared(entry, view) == [filled |-> TRUE, df |-> view]

\* st.cache_data hands every run its own copy of the stored table, and the
\* script filters into copies (lines 41-45, 134-137, 209-212): what a run does
\* to its tables never reaches the entry.
CacheAfterRun(entry, view) == entry

Outcomes == {"returns", "raises"}

\* The pages a run over df can end with when the slider is at one of
\* `sliders`: Prophet returns or raises, and it can only raise in a run that
\* calls it.
Pages(df, p, u, y, sliders, observed) ==
    LET head == PageBeforeForecast(df, p, u, y, observed)
        tail == MapAndMix(df, p)
    IN  { PageOf(head, tail, c[1], c[2]) :
            c \in { q \in sliders \X Outcomes :
                      q[2] = "raises"
                          => forecast_step(head.monthly, q[2]) = "raised" } }

\* One run of the script: load_data, then the page.
Run(p, u, y, sliders) ==
    \E ld \in {load_data(cache, file)} :
       \E o \in Pages(ld.df, p, u, y, sliders, pandas_observed) :
          /\ cache' = CacheAfterRun(ld.cache, o.view)
          /\ out' = o
          /\ first' = IF first.filled
                      THEN [first EXCEPT !.moved = @ \/ o.sel # first.out.sel]
                      ELSE [filled |-> TRUE, df |-> ld.df, out |-> o,
                            moved |-> FALSE]
          /\ UNCHANGED <<file, pandas_observed, changes>>

\* The first run of the session: every selectbox shows its first option and
\* the slider its default.
FirstRun ==
    /\ ~cache.filled
    /\ LET df == ReadAndNormalize(file)
       IN  Run(Head(prop_options(df)), Head(utility_options(df)),
               Head(year_options(df)), {slider_default})

\* How many of the three selectboxes differ between two selections.
Differing(a, p, u, y) ==
    (IF a.prop = p THEN 0 ELSE 1) + (IF a.utility = u THEN 0 ELSE 1)
        + (IF a.year = y THEN 0 ELSE 1)

\* Where the slider stands before a rerun: where the last run had it, or at
\* its default when the last run did not show it (Streamlit forgets a widget
\* that a run does not render).
SliderBefore == IF out.forecast_periods = 0 THEN slider_default
                ELSE out.forecast_periods

\* The positions the operator puts the slider at: both ends, the default and
\* one between.
SliderPositions ==
    {v \in {slider_min, 6, slider_default, slider_max} :
        slider_min <= v /\ v <= slider_max}

\* A rerun: Streamlit runs the script again as soon as one widget changes, so
\* at most one of the three selectboxes and the slider differs from the run
\* before (none on a reload of the page); the slider can only be moved when
\* the last run showed it.
Rerun ==
    /\ cache.filled
    /\ \E p \in Range(prop_options(cache.df)),
          u \in Range(utility_options(cache.df)),
          y \in Range(year_options(cache.df)) :
          /\ Differing(out.sel, p, u, y) <= 1
          /\ Run(p, u, y,
                 IF Differing(out.sel, p, u, y) = 0 /\ out.forecast_periods # 0
                 THEN SliderPositions
                 ELSE {SliderBefore})

\* Somebody saves the workbook with one more row while the app is up (a
\* rewrite before the first run is just another sheet to start from).
SourceChange ==
    /\ cache.filled
    /\ changes < MaxChanges
    /\ \E r \in ChangeRows :
          /\ file' = Append(file, r)
          /\ changes' = changes + 1
          /\ UNCHANGED <<cache, out, pandas_observed, first>>

Next == FirstRun \/ Rerun \/ SourceChange

Spec == Init /\ [][Next]_vars

\* ================================================================ claims
\* The normalized table the runs work on, and the rows of the selected
\* property and utility in it.
Rendered == out.status # "none"
Table == cache.df
History == yoy_filtered(Table, out.sel.prop, out.sel.utility)
Indices(t) == 1..Len(t)

\* ---------------------------------------------------------------- C1
\* The rows of t whose Cost_per_Unit is not missing.
NonMissing(t) == SelectSeq(t, LAMBDA r : r.Cost_per_Unit.k # "nan")

\* C1: every record's Cost_per_Unit is amount / usage, it is the missing
\* value when usage is zero (never an infinity), and the mean of Cost_per_Unit
\* per (Property, Utility) is taken over the records where it is not missing.
C1_CostPerUnitOverUsage ==
    cache.filled =>
        /\ \A i \in Indices(Table) :
              LET r == Table[i]
              IN  /\ r.Usage = 0 => r.Cost_per_Unit = NaN
                  /\ r.Usage # 0 => r.Cost_per_Unit = Ratio(r.Amt.n, r.Amt.d * r.Usage)
                  /\ r.Cost_per_Unit.k \notin {"inf", "ninf"}
        /\ Rendered =>
              \A i \in Indices(out.summary) :
                 LET s == out.summary[i]
                     g == NonMissing(yoy_filtered(Table, s.Prop_Name, s.Utility))
                 IN  s.Avg_Cost_per_Unit =
                        IF g = <<>> THEN NaN
                        ELSE FDivCount(FSum(Col(g, "Cost_per_Unit")), Len(g))

\* ---------------------------------------------------------------- C2
ForecastCalled == out.forecast \in {"fit", "raised"}

\* C2: Prophet is called only with at least 6 monthly points, and a history
\* of exactly 3 dated rows gets the note and no call.
C2_NoForecastBelowSixPoints ==
    Rendered =>
        /\ ForecastCalled => Len(out.monthly) >= 6
        /\ Len(History) = 3 => out.forecast = "info"

\* ---------------------------------------------------------------- C3
\* C3: when the Prophet call raises, the run still executes the Map & Mix tab.
C3_ForecastFailureKeepsPage ==
    out.forecast = "raised" =>
        /\ \E i \in Indices(out.stages) : out.stages[i] = "tab_map_mix"
        /\ out.status = "done"

\* ---------------------------------------------------------------- C5
\* C5: a run leaves load_data's table equal to the one built from the file
\* as it is then; a run is a step that does not touch the file.
C5_CacheFollowsSource ==
    [][(file' = file) => (cache'.filled => cache'.df = ReadAndNormalize(file'))]_vars

\* ---------------------------------------------------------------- C8
\* The usage of the rows of t in calendar month m of year y: their sum, or
\* the missing value when there is no such row.
UsageOrMissing(t, m, y) ==
    LET rows == SelectSeq(t, LAMBDA r : r.Date.m = m /\ r.Year = y)
    IN  IF rows = <<>> THEN NaN ELSE F(IntSum(Col(rows, "Usage")))

\* C8: for a property and utility with records, the pivot has the 12 months
\* Jan..Dec as rows and the years present as columns, a cell holds the summed
\* usage of its month and year and is missing when there is no record.
C8_PivotTwelveMonthsMissingCells ==
    (Rendered /\ History # <<>>) =>
        /\ Len(out.pivot.rows) = 12
        /\ out.pivot.columns = SortedInts({History[i].Year : i \in Indices(History)})
        /\ \A m \in Indices(out.pivot.rows) :
              /\ out.pivot.rows[m].Month.code = m
              /\ \A j \in Indices(out.pivot.columns) :
                    out.pivot.rows[m].cells[j] =
                        UsageOrMissing(History, m, out.pivot.columns[j])

\* ---------------------------------------------------------------- C4
CalendarAbbrev ==
    << <<"J", "a", "n">>, <<"F", "e", "b">>, <<"M", "a", "r">>,
       <<"A", "p", "r">>, <<"M", "a", "y">>, <<"J", "u", "n">>,
       <<"J", "u", "l">>, <<"A", "u", "g">>, <<"S", "e", "p">>,
       <<"O", "c", "t">>, <<"N", "o", "v">>, <<"D", "e", "c">> >>

\* C4: the Month of every record is the three-letter abbreviation of the
\* calendar month of its date, its place in the categorical order is the
\* number of that month, and the rows of the pivot, which is grouped by
\* Month, come in calendar order.
C4_MonthInCalendarOrder ==
    cache.filled =>
        /\ \A i \in Indices(Table) :
              /\ Table[i].Month.label = CalendarAbbrev[Table[i].Date.m]
              /\ Table[i].Month.code = Table[i].Date.m
        /\ \A i, j \in Indices(Table) :
              (Table[i].Month.code < Table[j].Month.code)
                  <=> (Table[i].Date.m < Table[j].Date.m)
        /\ \A i \in Indices(out.pivot.rows) :
              /\ out.pivot.rows[i].Month.label
                    = CalendarAbbrev[out.pivot.rows[i].Month.code]
              /\ \A j \in Indices(out.pivot.rows) :
                    i < j => out.pivot.rows[i].Month.code
                                < out.pivot.rows[j].Month.code

\* A table read in an order that is not the calendar's, holding April and
\* January (alphabetically the other way round), and a pivot of both.
C4_Witness ==
    /\ Rendered
    /\ \E i, j \in Indices(Table) : i < j /\ Table[i].Date.m > Table[j].Date.m
    /\ \E i, j \in Indices(out.pivot.rows) :
          /\ i < j
          /\ out.pivot.rows[i].Month.label = <<"J", "a", "n">>
          /\ out.pivot.rows[j].Month.label = <<"A", "p", "r">>

\* ---------------------------------------------------------------- C6
\* Selections to try: the labels and years of the model and one of each that
\* no table holds.
AnyProp == Range(PropUniverse) \cup {"P9"}
AnyUtility == Range(UtilityUniverse) \cup {"Gas"}
AnyYear == 2022..2025

AllThree(r, p, u, y) == r.Prop_Name = p /\ r.Utility = u /\ r.Year = y

\* C6: the filtered view is exactly the records that equal all three selected
\* values, in table order; it is the empty view when no record does; and the
\* run goes on past the filter.
C6_FilterIsConjunction ==
    cache.filled =>
        /\ \A p \in AnyProp, u \in AnyUtility, y \in AnyYear :
              /\ filtered(Table, p, u, y)
                    = SelectSeq(Table, LAMBDA r : AllThree(r, p, u, y))
              /\ (\A i \in Indices(Table) : ~AllThree(Table[i], p, u, y))
                    => filtered(Table, p, u, y) = <<>>
        /\ Rendered =>
              /\ out.view = SelectSeq(Table, LAMBDA r :
                               AllThree(r, out.sel.prop, out.sel.utility,
                                        out.sel.year))
              /\ \E i \in Indices(out.stages) : out.stages[i] = "top_metrics"

\* A run whose three selected values each occur in the table, never together.
C6_Witness ==
    /\ Rendered
    /\ out.view = <<>>
    /\ \E i \in Indices(Table) : Table[i].Prop_Name = out.sel.prop
    /\ \E i \in Indices(Table) : Table[i].Utility = out.sel.utility
    /\ \E i \in Indices(Table) : Table[i].Year = out.sel.year
    /\ \E i \in Indices(Table) :
          Table[i].Prop_Name = out.sel.prop /\ Table[i].Utility = out.sel.utility

\* ---------------------------------------------------------------- C7
Reached(o, stage) == \E i \in Indices(o.stages) : o.stages[i] = stage

\* C7: the table the runs work on stays the one the first run loaded; what a
\* run shows (metrics, pivot, summary, monthly series, utility mix) is what
\* that table and the run's selection give; and a run with the selection of
\* the first run shows the aggregates the first run showed.
C7_RunsLeaveTableAndAggregates ==
    first.filled =>
        LET sel == out.sel
            rows == yoy_filtered(first.df, sel.prop, sel.utility)
        IN  /\ Table = first.df
            /\ out.metrics
                  = top_metrics(filtered(first.df, sel.prop, sel.utility, sel.year))
            /\ out.pivot = pivot_table(rows, pandas_observed)
            /\ out.summary = summary(first.df)
            /\ out.monthly = monthly(rows)
            /\ Reached(out, "tab_map_mix") => out.mix = mix(first.df, sel.prop)
            /\ out.sel = first.out.sel =>
                  /\ out.metrics = first.out.metrics
                  /\ out.pivot = first.out.pivot
                  /\ out.summary = first.out.summary
                  /\ out.prop_totals = first.out.prop_totals
                  /\ out.monthly = first.out.monthly
                  /\ (Reached(out, "tab_map_mix")
                        /\ Reached(first.out, "tab_map_mix"))
                        => out.mix = first.out.mix

\* Back at the first selection after runs with another one, with a table the
\* filter cuts down and the file rewritten meanwhile.
C7_Witness ==
    /\ first.filled
    /\ first.moved
    /\ out.sel = first.out.sel
    /\ changes > 0
    /\ Len(out.view) > 0
    /\ Len(out.view) < Len(Table)

\* ---------------------------------------------------------------- C9
Period(date) == [y |-> date.y, m |-> date.m, d |-> 1]

RECURSIVE UsageIn(_, _, _)
\* The usage of the first n rows of t that fall in period per.
UsageIn(t, per, n) ==
    IF n = 0 THEN 0
    ELSE UsageIn(t, per, n - 1)
            + (IF Period(t[n].Date) = per THEN t[n].Usage ELSE 0)

\* C9: the monthly series is strictly increasing by date, its dates are
\* first-of-month periods between the first and the last record, every period
\* that has a record has exactly one pair, and the value of a pair is the sum
\* of the usage of all records of its period.
C9_SeriesOnePairPerPeriod ==
    Rendered =>
        LET h == History
            m == out.monthly
        IN  /\ \A i, j \in Indices(m) :
                  i < j => MonthIndex(m[i].Date) < MonthIndex(m[j].Date)
            /\ \A i \in Indices(m) :
                  /\ m[i].Date.d = 1
                  /\ m[i].Usage = UsageIn(h, m[i].Date, Len(h))
                  /\ \E a, b \in Indices(h) :
                        /\ MonthIndex(h[a].Date) <= MonthIndex(m[i].Date)
                        /\ MonthIndex(m[i].Date) <= MonthIndex(h[b].Date)
            /\ \A a \in Indices(h) :
                  Cardinality({i \in Indices(m) : m[i].Date = Period(h[a].Date)}) = 1

\* Two records on the same date, both with usage, in one pair with their sum.
C9_Witness ==
    /\ Rendered
    /\ LET h == History
       IN  \E a, b \in Indices(h) :
              /\ a < b
              /\ h[a].Date = h[b].Date
              /\ h[a].Usage > 0
              /\ h[b].Usage > 0
              /\ \E i \in Indices(out.monthly) :
                    /\ out.monthly[i].Date = Period(h[a].Date)
                    /\ out.monthly[i].Usage = h[a].Usage + h[b].Usage

\* ---------------------------------------------------------------- C10
\* C10: over an empty filtered view the run reaches the metrics, both sums
\* are 0 and both means are the missing value, and the run ends normally
\* unless the Prophet call raised.
C10_EmptyViewMetrics ==
    (Rendered /\ out.view = <<>>) =>
        /\ Reached(out, "top_metrics")
        /\ out.metrics.Total_Usage = 0
        /\ out.metrics.Total_Cost = F(0)
        /\ out.metrics.Avg_Monthly_Cost = NaN
        /\ out.metrics.Avg_Cost_per_Unit = NaN
        /\ out.forecast # "raised" => out.status = "done"

\* A run whose selection matches no record of a table that has records.
C10_Witness ==
    /\ Rendered
    /\ out.view = <<>>
    /\ Len(Table) > 0

====
